---- MODULE Spec2Model ----
(***************************************************************************)
(* The interactive command-resolution flow of src/prompt.ts: prompt(),     *)
(* runOrReviseFlow(), explanationFlow(), revisionFlow(), runScript(),      *)
(* getPrompt() and promptForRevision().  Every `await` of the source is a  *)
(* position of the single control thread (pc); the user, the completion    *)
(* backend and the subshell are the environment that resolves each await.  *)
(*                                                                         *)
(* Strings are sequences of one-character strings; "" is <<>>.  An absent  *)
(* (undefined) usePrompt behaves exactly as "" on every path of prompt()   *)
(* (`usePrompt ?? ''`, `usePrompt || ...`), so <<>> stands for both.       *)
(***************************************************************************)
EXTENDS Integers, Sequences, FiniteSets, TLC

\* ---------------------------------------------------------------- bounds
MaxLen == 2          \* longest script text a backend round or an edit yields
MaxRevisions == 2    \* revision rounds explored per session
MaxExplains == 2     \* Explain actions explored per session

\* ---------------------------------------------------------------- strings
Alphabet == {" ", "x"}

RECURSIVE StringsOfLen(_)
StringsOfLen(n) ==
    IF n = 0 THEN {<<>>}
    ELSE {Append(s, c) : s \in StringsOfLen(n - 1), c \in Alphabet}

RECURSIVE StringsUpTo(_)
StringsUpTo(n) ==
    IF n = 0 THEN StringsOfLen(0)
    ELSE StringsOfLen(n) \cup StringsUpTo(n - 1)

\* texts a script stream, or the edit input, can deliver
ScriptTexts == StringsUpTo(MaxLen)
\* texts typed at the prompt / revision prompt, or given on the CLI
PromptTexts == {<<>>, <<"x">>}
\* explanation text bundled with the first generation round
InfoTexts == {<<>>, <<"x">>}

IsWhitespace(c) == c = " "

\* String.prototype.trim
RECURSIVE TrimStart(_)
TrimStart(s) ==
    IF s = <<>> THEN <<>>
    ELSE IF IsWhitespace(Head(s)) THEN TrimStart(Tail(s))
    ELSE s

RECURSIVE TrimEnd(_)
TrimEnd(s) ==
    IF s = <<>> THEN <<>>
    ELSE IF IsWhitespace(s[Len(s)]) THEN TrimEnd(SubSeq(s, 1, Len(s) - 1))
    ELSE s

trim(s) == TrimEnd(TrimStart(s))

\* ---------------------------------------------------------------- state
VARIABLES
    pc,               \* the await the control thread is suspended at
    exit,             \* "alive" | "exit0" | "returned" | "crashed"
    usePrompt,        \* CLI: initial prompt ("" when absent)
    silentMode,       \* CLI: explicit silent flag
    SILENT_MODE,      \* persisted configuration flag
    thePrompt,        \* prompt(): thePrompt
    script,           \* runOrReviseFlow(): script parameter
    info,             \* what the readInfo accessor yields
    menu,             \* the p.select last rendered
    menuCount,        \* number of p.select renders
    spinners,         \* spinners started and not stopped
    validationShown,  \* a validate() message is on screen
    genRequests,      \* getScriptAndInfo calls: prompts
    explRequests,     \* getExplanation calls: scripts
    revRequests,      \* getRevision calls: [prompt, code]
    executed,         \* execaCommand calls: commands
    execOk,           \* outcome of each execaCommand call
    shellHistory,     \* appendToShellHistory calls: commands
    clipboard,        \* clipboardy.write calls: texts
    roundTexts,       \* full text each script stream returned, in order
    editSeed,         \* initialValue of the Edit text input
    edits,            \* texts submitted in the Edit text input
    scriptDrains,     \* readScript calls made
    pending,          \* awaited calls that have not settled
    explains,         \* Explain actions taken
    explainsSinceRound,  \* Explain actions since the latest script round
    requestsSinceRound,  \* getExplanation calls since the latest round
    lastAction        \* the latest step taken

vars == <<pc, exit, usePrompt, silentMode, SILENT_MODE, thePrompt, script,
          info, menu, menuCount, spinners, validationShown, genRequests,
          explRequests, revRequests, executed, execOk, shellHistory,
          clipboard, roundTexts, editSeed, explains, explainsSinceRound,
          requestsSinceRound, lastAction, edits, scriptDrains, pending>>

cli == <<usePrompt, silentMode, SILENT_MODE>>
effects == <<executed, execOk, shellHistory, clipboard>>
backend == <<genRequests, explRequests, revRequests>>
explainCounters == <<explains, explainsSinceRound, requestsSinceRound>>
rounds == <<roundTexts, editSeed, edits, scriptDrains>>

NoMenu == [message |-> "", options |-> <<>>]

Init ==
    /\ pc = "getConfig"
    /\ exit = "alive"
    /\ usePrompt \in PromptTexts
    /\ silentMode \in BOOLEAN
    /\ SILENT_MODE \in BOOLEAN
    /\ thePrompt = <<>>
    /\ script = <<>>
    /\ info = <<>>
    /\ menu = NoMenu
    /\ menuCount = 0
    /\ spinners = 0
    /\ validationShown = FALSE
    /\ genRequests = <<>>
    /\ explRequests = <<>>
    /\ revRequests = <<>>
    /\ executed = <<>>
    /\ execOk = <<>>
    /\ shellHistory = <<>>
    /\ clipboard = <<>>
    /\ roundTexts = <<>>
    /\ editSeed = <<>>
    /\ edits = <<>>
    /\ scriptDrains = 0
    /\ pending = {"getConfig"}
    /\ explains = 0
    /\ explainsSinceRound = 0
    /\ requestsSinceRound = 0
    /\ lastAction = "init"

\* ---------------------------------------------------------------- helpers
\* a settled call that is still counted as outstanding
settled_stillPending(calls, call) == calls

\* `await call`: the flow resumes only once the call has settled
settled(calls, call) == calls \ {call}

\* the call the flow suspends on next (none once the process has ended)
awaiting(calls, call) == IF call = "done" THEN calls ELSE calls \cup {call}

\* one turn of the flow: the awaited call settles, the next one is issued
Turn == pending' = awaiting(settled(pending, pc), pc')

\* process.exit(1)
ProcessExit_failure ==
    /\ pc' = "done"
    /\ exit' = "crashed"

\* process.exit(0)
ProcessExit ==
    /\ pc' = "done"
    /\ exit' = "exit0"

\* the outermost async function returns and the process ends on its own
FlowReturns ==
    /\ pc' = "done"
    /\ exit' = "returned"

\* a rejection that is caught, the flow going on to the decision menu
Throws_swallowed ==
    /\ pc' = "select"
    /\ exit' = exit

\* an awaited promise rejects and nothing in prompt.ts catches it
Throws ==
    /\ pc' = "done"
    /\ exit' = "crashed"

\* validate that accepts every value
validate_acceptsAll(value) == FALSE

\* validate with the test inverted
validate_inverted(value) == value # <<>>

\* validate: (value) => { if (!value) return 'Please enter a prompt.' }
validate(value) == value = <<>>

\* skip that ignores the persisted configuration flag
skip_flagOnly(flag, configFlag) == flag

\* const skip = silentMode || SILENT_MODE
skip(flag, configFlag) == flag \/ configFlag

\* emptyScript with the comparison inverted
emptyScript_inverted(s) == trim(s) # <<>>

\* const emptyScript = script.trim() === ''
emptyScript(s) == trim(s) = <<>>

\* the message of p.select
selectMessage(s) ==
    IF emptyScript(s) THEN "Revise this script?" ELSE "Run this script?"

\* option list that leaves Edit out
selectOptions_withoutEdit(s) ==
    (IF emptyScript(s) THEN <<>> ELSE <<"Yes">>)
        \o <<"Explain", "Revise", "Copy", "Cancel">>

\* option list that offers Yes and Edit whatever the script
selectOptions_always(s) == <<"Yes", "Edit", "Explain", "Revise", "Copy", "Cancel">>

\* the options of p.select, by label
selectOptions(s) ==
    (IF emptyScript(s) THEN <<>> ELSE <<"Yes", "Edit">>)
        \o <<"Explain", "Revise", "Copy", "Cancel">>

HasOption(label) == \E i \in 1..Len(menu.options) : menu.options[i] = label

\* runOrReviseFlow(s, ...) up to its await p.select
runOrReviseFlow(s) ==
    /\ script' = s
    /\ menu' = [message |-> selectMessage(s), options |-> selectOptions(s)]
    /\ menuCount' = menuCount + 1
    /\ pc' = "select"
    /\ exit' = exit

\* ---------------------------------------------------------------- prompt()
\* a round that calls readScript a second time
readScriptCalls_twice(n) == n + 2

\* await readScript(...): one call per round
readScriptCalls(n) == n + 1

\* spin.start(); await getScriptAndInfo({prompt: thePrompt, ...})
StartGeneration(text) ==
    /\ thePrompt' = text
    /\ spinners' = spinners + 1
    /\ genRequests' = Append(genRequests, text)
    /\ pc' = "getScriptAndInfo"
    /\ exit' = exit

\* await getConfig() resolves; usePrompt || (await getPrompt())
prompt_getConfig ==
    /\ pc = "getConfig"
    /\ IF usePrompt # <<>>
       THEN /\ StartGeneration(usePrompt)
       ELSE /\ pc' = "getPrompt"
            /\ UNCHANGED <<exit, thePrompt, spinners, genRequests>>
    /\ lastAction' = "getConfig"
    /\ UNCHANGED <<cli, script, info, menu, menuCount, validationShown,
                   explRequests, revRequests, effects, rounds,
                   explainCounters>>
    /\ Turn

\* getPrompt(): the user submits the text input
getPrompt_submit ==
    /\ pc = "getPrompt"
    /\ \E value \in PromptTexts :
        IF validate(value)
        THEN /\ validationShown' = TRUE
             /\ lastAction' = "promptRejected"
             /\ UNCHANGED <<pc, exit, thePrompt, spinners, genRequests>>
        ELSE /\ validationShown' = FALSE
             /\ lastAction' = "promptAccepted"
             /\ StartGeneration(value)
    /\ UNCHANGED <<cli, script, info, menu, menuCount, explRequests,
                   revRequests, effects, rounds, explainCounters>>
    /\ Turn

\* getPrompt(): onCancel
getPrompt_cancel ==
    /\ pc = "getPrompt"
    /\ ProcessExit
    /\ lastAction' = "promptCancel"
    /\ UNCHANGED <<cli, thePrompt, script, info, menu, menuCount, spinners,
                   validationShown, backend, effects, rounds,
                   explainCounters>>
    /\ Turn

\* await getScriptAndInfo(...) resolves with {readInfo, readScript}
prompt_getScriptAndInfo ==
    /\ pc = "getScriptAndInfo"
    /\ \/ /\ \E i \in InfoTexts : info' = i
          /\ scriptDrains' = readScriptCalls(scriptDrains)
          /\ pc' = "readScript"
          /\ exit' = exit
          /\ lastAction' = "generationStarted"
       \/ /\ Throws
          /\ lastAction' = "generationFailed"
          /\ UNCHANGED <<info, scriptDrains>>
    /\ UNCHANGED <<cli, thePrompt, script, menu, menuCount, spinners,
                   validationShown, backend, effects, roundTexts, editSeed,
                   edits, explainCounters>>
    /\ Turn

\* await readScript(...) resolves; spin.stop(); if (skip) process.exit(0);
\* await runOrReviseFlow(script, ...)
prompt_readScript ==
    /\ pc = "readScript"
    /\ \/ /\ \E text \in ScriptTexts :
                /\ roundTexts' = Append(roundTexts, text)
                /\ UNCHANGED <<editSeed, edits, scriptDrains>>
                /\ IF skip(silentMode, SILENT_MODE)
                   THEN /\ script' = text
                        /\ ProcessExit
                        /\ UNCHANGED <<menu, menuCount>>
                   ELSE runOrReviseFlow(text)
          /\ spinners' = spinners - 1
          /\ lastAction' = "generated"
       \/ /\ Throws
          /\ lastAction' = "generationStreamError"
          /\ UNCHANGED <<script, menu, menuCount, spinners, rounds>>
    /\ explainsSinceRound' = 0
    /\ requestsSinceRound' = 0
    /\ UNCHANGED <<cli, thePrompt, info, validationShown, backend, effects,
                   explains>>
    /\ Turn

\* ------------------------------------------------------- runOrReviseFlow()
\* runScript that starts the command twice
runScript_twice(command) ==
    /\ executed' = executed \o <<command, command>>
    /\ pc' = "execaCommand"
    /\ exit' = exit

\* runScript(command) up to its await execaCommand
runScript(command) ==
    /\ executed' = Append(executed, command)
    /\ pc' = "execaCommand"
    /\ exit' = exit

\* appendToShellHistory placed after the try/catch
historyAfter_always(ok, history, command) == Append(history, command)

\* try { await execaCommand(...); appendToShellHistory(script) } catch {}
historyAfter(ok, history, command) ==
    IF ok THEN Append(history, command) ELSE history

\* await execaCommand(...) settles; appendToShellHistory on success, the
\* catch block swallows a rejection; answer() and prompt() then return
runScript_execaCommand ==
    /\ pc = "execaCommand"
    /\ \E ok \in BOOLEAN :
        /\ execOk' = Append(execOk, ok)
        /\ shellHistory' = historyAfter(ok, shellHistory,
                                        executed[Len(executed)])
    /\ FlowReturns
    /\ lastAction' = "executed"
    /\ UNCHANGED <<cli, thePrompt, script, info, menu, menuCount, spinners,
                   validationShown, backend, executed, clipboard, rounds,
                   explainCounters>>
    /\ Turn

\* option Yes: await runScript(script)
select_Yes ==
    /\ pc = "select"
    /\ HasOption("Yes")
    /\ runScript(script)
    /\ lastAction' = "Yes"
    /\ UNCHANGED <<cli, thePrompt, script, info, menu, menuCount, spinners,
                   validationShown, backend, execOk, shellHistory, clipboard,
                   rounds, explainCounters>>
    /\ Turn

\* option Edit: await p.text({initialValue: script})
select_Edit ==
    /\ pc = "select"
    /\ HasOption("Edit")
    /\ editSeed' = script
    /\ pc' = "editText"
    /\ lastAction' = "Edit"
    /\ UNCHANGED <<exit, cli, thePrompt, script, info, menu, menuCount,
                   spinners, validationShown, backend, effects, roundTexts,
                   edits, scriptDrains, explainCounters>>
    /\ Turn

\* Edit that runs the script it was seeded with
editedCommand_seed(currentScript, newScript) == currentScript

\* if (!p.isCancel(newScript)) await runScript(newScript)
editedCommand(currentScript, newScript) == newScript

\* option Edit: the text input is submitted; await runScript(newScript)
edit_submit ==
    /\ pc = "editText"
    /\ \E newScript \in ScriptTexts :
        /\ edits' = Append(edits, newScript)
        /\ runScript(editedCommand(script, newScript))
    /\ lastAction' = "editSubmit"
    /\ UNCHANGED <<cli, thePrompt, script, info, menu, menuCount, spinners,
                   validationShown, backend, execOk, shellHistory, clipboard,
                   roundTexts, editSeed, scriptDrains, explainCounters>>
    /\ Turn

\* option Edit: p.isCancel(newScript); answer() and prompt() return
edit_cancel ==
    /\ pc = "editText"
    /\ FlowReturns
    /\ lastAction' = "editCancel"
    /\ UNCHANGED <<cli, thePrompt, script, info, menu, menuCount, spinners,
                   validationShown, backend, effects, rounds,
                   explainCounters>>
    /\ Turn

\* option Explain: explanationFlow(): spin.start(); await readInfo(...)
select_Explain ==
    /\ pc = "select"
    /\ HasOption("Explain")
    /\ explains < MaxExplains
    /\ spinners' = spinners + 1
    /\ explains' = explains + 1
    /\ explainsSinceRound' = explainsSinceRound + 1
    /\ pc' = "readInfo"
    /\ lastAction' = "Explain"
    /\ UNCHANGED <<exit, cli, thePrompt, script, info, menu, menuCount,
                   validationShown, backend, effects, rounds,
                   requestsSinceRound>>
    /\ Turn

\* option Revise: revisionFlow(): await promptForRevision()
select_Revise ==
    /\ pc = "select"
    /\ HasOption("Revise")
    /\ Len(revRequests) < MaxRevisions
    /\ pc' = "promptForRevision"
    /\ lastAction' = "Revise"
    /\ UNCHANGED <<exit, cli, thePrompt, script, info, menu, menuCount,
                   spinners, validationShown, backend, effects, rounds,
                   explainCounters>>
    /\ Turn

\* option Copy: await clipboardy.write(script)
select_Copy ==
    /\ pc = "select"
    /\ HasOption("Copy")
    /\ pc' = "clipboardWrite"
    /\ lastAction' = "Copy"
    /\ UNCHANGED <<exit, cli, thePrompt, script, info, menu, menuCount,
                   spinners, validationShown, backend, effects, rounds,
                   explainCounters>>
    /\ Turn

\* option Copy: the write settles; p.outro(); answer() and prompt() return
copy_clipboardWrite ==
    /\ pc = "clipboardWrite"
    /\ \/ /\ clipboard' = Append(clipboard, script)
          /\ FlowReturns
          /\ lastAction' = "copied"
       \/ /\ clipboard' = clipboard
          /\ Throws
          /\ lastAction' = "copyFailed"
    /\ UNCHANGED <<cli, thePrompt, script, info, menu, menuCount, spinners,
                   validationShown, backend, executed, execOk, shellHistory,
                   rounds, explainCounters>>
    /\ Turn

\* option Cancel: p.cancel(); process.exit(0)
select_Cancel ==
    /\ pc = "select"
    /\ HasOption("Cancel")
    /\ ProcessExit
    /\ lastAction' = "Cancel"
    /\ UNCHANGED <<cli, thePrompt, script, info, menu, menuCount, spinners,
                   validationShown, backend, effects, rounds,
                   explainCounters>>
    /\ Turn

\* p.select is interrupted: answer is the cancel symbol, not a function
select_interrupt ==
    /\ pc = "select"
    /\ FlowReturns
    /\ lastAction' = "selectInterrupt"
    /\ UNCHANGED <<cli, thePrompt, script, info, menu, menuCount, spinners,
                   validationShown, backend, effects, rounds,
                   explainCounters>>
    /\ Turn

\* ------------------------------------------------------- explanationFlow()
\* the readInfo accessor: the explanation bundled with the generation round
readInfo == info

\* if (true): the explanation is fetched whatever readInfo yields
needsExplanation_always(text) == TRUE

\* if (!info)
needsExplanation(text) == text = <<>>

\* explanation request that carries the trimmed script
explanationRequest_trimmed(s) == trim(s)

\* getExplanation({script, key, apiEndpoint}): the script the request carries
explanationRequest(s) == s

\* await readInfo(...) resolves; if (!info) await getExplanation(...)
\* else await runOrReviseFlow(script, ...)
explanationFlow_readInfo ==
    /\ pc = "readInfo"
    /\ IF needsExplanation(readInfo)
       THEN /\ explRequests' = Append(explRequests, explanationRequest(script))
            /\ requestsSinceRound' = requestsSinceRound + 1
            /\ pc' = "getExplanation"
            /\ lastAction' = "explanationRequested"
            /\ UNCHANGED <<exit, script, menu, menuCount>>
       ELSE /\ runOrReviseFlow(script)
            /\ lastAction' = "explanationKnown"
            /\ UNCHANGED <<explRequests, requestsSinceRound>>
    /\ UNCHANGED <<cli, thePrompt, info, spinners, validationShown,
                   genRequests, revRequests, effects, rounds, explains,
                   explainsSinceRound>>
    /\ Turn

\* await getExplanation(...) resolves; spin.stop(); await readExplanation(...)
explanationFlow_getExplanation ==
    /\ pc = "getExplanation"
    /\ \/ /\ spinners' = spinners - 1
          /\ pc' = "readExplanation"
          /\ exit' = exit
          /\ lastAction' = "explanationStarted"
       \/ /\ Throws
          /\ spinners' = spinners
          /\ lastAction' = "explanationFailed"
    /\ UNCHANGED <<cli, thePrompt, script, info, menu, menuCount,
                   validationShown, backend, effects, rounds,
                   explainCounters>>
    /\ Turn

\* await readExplanation(...) resolves; await runOrReviseFlow(script, ...)
explanationFlow_readExplanation ==
    /\ pc = "readExplanation"
    /\ \/ /\ runOrReviseFlow(script)
          /\ lastAction' = "explained"
       \/ /\ Throws
          /\ lastAction' = "explanationStreamError"
          /\ UNCHANGED <<script, menu, menuCount>>
    /\ UNCHANGED <<cli, thePrompt, info, spinners, validationShown, backend,
                   effects, rounds, explainCounters>>
    /\ Turn

\* ---------------------------------------------------------- revisionFlow()
\* getRevision({prompt: revision, code: currentScript, ...})
revisionRequest(revision, currentScript) ==
    [prompt |-> revision, code |-> currentScript]

\* revisionFlow re-entering the menu with currentScript
revisedScript_keepsCurrent(currentScript, text) == currentScript

\* the script revisionFlow hands to runOrReviseFlow
revisedScript(currentScript, text) == text

\* promptForRevision(): the user submits the text input;
\* spin.start(); await getRevision(...)
promptForRevision_submit ==
    /\ pc = "promptForRevision"
    /\ \E value \in PromptTexts :
        IF validate(value)
        THEN /\ validationShown' = TRUE
             /\ lastAction' = "revisionRejected"
             /\ UNCHANGED <<pc, spinners, revRequests>>
        ELSE /\ validationShown' = FALSE
             /\ lastAction' = "revisionAccepted"
             /\ spinners' = spinners + 1
             /\ revRequests' = Append(revRequests,
                                      revisionRequest(value, script))
             /\ pc' = "getRevision"
    /\ UNCHANGED <<exit, cli, thePrompt, script, info, menu, menuCount,
                   genRequests, explRequests, effects, rounds,
                   explainCounters>>
    /\ Turn

\* promptForRevision(): onCancel
promptForRevision_cancel ==
    /\ pc = "promptForRevision"
    /\ ProcessExit
    /\ lastAction' = "revisionCancel"
    /\ UNCHANGED <<cli, thePrompt, script, info, menu, menuCount, spinners,
                   validationShown, backend, effects, rounds,
                   explainCounters>>
    /\ Turn

\* await getRevision(...) resolves; spin.stop(); await readScript(...)
revisionFlow_getRevision ==
    /\ pc = "getRevision"
    /\ \/ /\ spinners' = spinners - 1
          /\ scriptDrains' = readScriptCalls(scriptDrains)
          /\ pc' = "readRevision"
          /\ exit' = exit
          /\ lastAction' = "revisionStarted"
       \/ /\ Throws
          /\ UNCHANGED <<spinners, scriptDrains>>
          /\ lastAction' = "revisionFailed"
    /\ UNCHANGED <<cli, thePrompt, script, info, menu, menuCount,
                   validationShown, backend, effects, roundTexts, editSeed,
                   edits, explainCounters>>
    /\ Turn

\* await readScript(...) resolves; await runOrReviseFlow(script, ...)
revisionFlow_readScript ==
    /\ pc = "readRevision"
    /\ \/ /\ \E text \in ScriptTexts :
                /\ roundTexts' = Append(roundTexts, text)
                /\ UNCHANGED <<editSeed, edits, scriptDrains>>
                /\ runOrReviseFlow(revisedScript(script, text))
          /\ explainsSinceRound' = 0
          /\ requestsSinceRound' = 0
          /\ lastAction' = "revised"
       \/ /\ Throws
          /\ lastAction' = "revisionStreamError"
          /\ UNCHANGED <<script, menu, menuCount, rounds,
                         explainsSinceRound, requestsSinceRound>>
    /\ UNCHANGED <<cli, thePrompt, info, spinners, validationShown, backend,
                   effects, explains>>
    /\ Turn

\* ---------------------------------------------------------------- system
Next ==
    \/ prompt_getConfig
    \/ getPrompt_submit
    \/ getPrompt_cancel
    \/ prompt_getScriptAndInfo
    \/ prompt_readScript
    \/ select_Yes
    \/ select_Edit
    \/ edit_submit
    \/ edit_cancel
    \/ select_Explain
    \/ select_Revise
    \/ select_Copy
    \/ copy_clipboardWrite
    \/ select_Cancel
    \/ select_interrupt
    \/ runScript_execaCommand
    \/ explanationFlow_readInfo
    \/ explanationFlow_getExplanation
    \/ explanationFlow_readExplanation
    \/ promptForRevision_submit
    \/ promptForRevision_cancel
    \/ revisionFlow_getRevision
    \/ revisionFlow_readScript

Spec == Init /\ [][Next]_vars

TypeOK ==
    /\ pc \in {"getConfig", "getPrompt", "getScriptAndInfo", "readScript",
               "select", "editText", "execaCommand", "clipboardWrite",
               "readInfo", "getExplanation", "readExplanation",
               "promptForRevision", "getRevision", "readRevision", "done"}
    /\ exit \in {"alive", "exit0", "returned", "crashed"}
    /\ (pc = "done") <=> (exit # "alive")
    /\ script \in ScriptTexts
    /\ info \in InfoTexts
    /\ spinners \in 0..(MaxExplains + 1)

\* ---------------------------------------------------------------- claims
Last(s) == s[Len(s)]

AllOptions == <<"Yes", "Edit", "Explain", "Revise", "Copy", "Cancel">>
ReviseOptions == <<"Explain", "Revise", "Copy", "Cancel">>

\* C1: in a session whose first generation round returned non-empty info,
\* once a Revise round has completed, an Explain action that has run to its
\* end has issued a fresh getExplanation request for the revised script.
C1_ReviseClearsExplanation ==
    ( /\ info # <<>>
      /\ Len(revRequests) >= 1
      /\ explainsSinceRound >= 1
      /\ pc = "select" )
    => ( /\ requestsSinceRound >= 1
         /\ Last(explRequests) = script )

\* C2: after Edit with a cancelled input nothing has run, the script is the
\* one the menu was showing, and the decision menu is open again with the
\* same contents.
C2_EditCancelReturnsToMenu ==
    lastAction = "editCancel"
    => ( /\ executed = <<>>
         /\ script = editSeed
         /\ pc = "select"
         /\ menu = [message |-> selectMessage(script),
                    options |-> selectOptions(script)] )

\* C3: whenever the decision menu is open on an empty current script it
\* lists exactly Explain, Revise, Copy, Cancel, and its message is
\* "Revise this script?".
C3_EmptyScriptMenu ==
    (pc = "select" /\ script = <<>>)
    => ( /\ menu.options = ReviseOptions
         /\ menu.message = "Revise this script?" )

C3_Witness ==
    /\ pc = "select"
    /\ script = <<>>
    /\ Len(revRequests) >= 1
    /\ menu.options = ReviseOptions

\* C4 (as claimed): whenever the decision menu is open on a current script
\* other than the empty string it lists all six actions under
\* "Run this script?".
C4_NonEmptyScriptMenu ==
    (pc = "select" /\ script # <<>>)
    => ( /\ menu.options = AllOptions
         /\ menu.message = "Run this script?" )

\* C4 (amended): whenever the decision menu is open on a current script that
\* is not empty once trimmed it lists all six actions under
\* "Run this script?"; Run or Edit is missing only when the script trims to
\* the empty string.
C4_NonBlankScriptMenu ==
    pc = "select"
    => ( /\ trim(script) # <<>>
            => ( /\ menu.options = AllOptions
                 /\ menu.message = "Run this script?" )
         /\ (~HasOption("Yes") \/ ~HasOption("Edit"))
            => trim(script) = <<>> )

C4_Witness ==
    /\ pc = "select"
    /\ script = <<" ", "x">>
    /\ menu.options = AllOptions

\* C5: an Explain action that finds readInfo yielding non-empty text issues
\* no getExplanation request and reopens the decision menu on the same
\* script.
C5_KnownExplanationNoRequest ==
    [][ (pc = "readInfo" /\ info # <<>>)
        => ( /\ explRequests' = explRequests
             /\ pc' = "select"
             /\ script' = script
             /\ menuCount' = menuCount + 1 ) ]_vars

C5_Witness ==
    /\ lastAction = "explanationKnown"
    /\ info # <<>>
    /\ pc = "select"
    /\ explRequests = <<>>

\* C6: for one script version, however many Explain actions follow one
\* another without a Revise, at most one getExplanation request is issued.
C6_ExplanationCached == requestsSinceRound <= 1

\* C7: an Explain action that finds readInfo yielding the empty text issues
\* exactly one getExplanation request, carrying the current script; the
\* request and its stream issue no further one, and when the stream ends the
\* decision menu reopens on the same script.
C7_UnknownExplanationOneRequest ==
    [][ /\ (pc = "readInfo" /\ info = <<>>)
           => ( /\ explRequests' = Append(explRequests, script)
                /\ pc' = "getExplanation"
                /\ script' = script )
        /\ pc = "getExplanation"
           => ( /\ explRequests' = explRequests
                /\ script' = script
                /\ pc' = "readExplanation" \/ exit' = "crashed" )
        /\ pc = "readExplanation"
           => ( /\ explRequests' = explRequests
                /\ script' = script
                /\ \/ pc' = "select" /\ menuCount' = menuCount + 1
                   \/ exit' = "crashed" ) ]_vars

C7_Witness ==
    /\ lastAction = "explained"
    /\ info = <<>>
    /\ pc = "select"
    /\ explains = 1
    /\ explRequests = <<script>>
    /\ script # trim(script)

\* C8: with the explicit flag or the persisted flag set, no decision menu is
\* ever rendered, nothing is executed, explained or revised, and the
\* session has exited with status 0 once the first generation is presented.
C8_SilentMode ==
    (silentMode \/ SILENT_MODE)
    => ( /\ menuCount = 0
         /\ pc # "select"
         /\ executed = <<>>
         /\ explRequests = <<>>
         /\ revRequests = <<>>
         /\ lastAction = "generated" => (pc = "done" /\ exit = "exit0") )

C8_Witness ==
    /\ SILENT_MODE
    /\ ~silentMode
    /\ lastAction = "generated"
    /\ exit = "exit0"

\* C9 (as claimed): an empty initial prompt on the CLI leaves the session at
\* the prompt with a validation message on screen.
C9_EmptyCliPromptShowsValidation ==
    (lastAction = "getConfig" /\ usePrompt = <<>>)
    => (pc = "getPrompt" /\ validationShown)

\* C9 (amended): every getScriptAndInfo request carries a non-empty prompt;
\* a non-empty submission issues the request for exactly that prompt; an
\* empty submission stays at the prompt with the validation message and no
\* request; an empty initial prompt on the CLI opens the prompt with no
\* request (and no validation message until an empty submission).
C9_GenerationNeedsPrompt ==
    /\ \A i \in 1..Len(genRequests) : genRequests[i] # <<>>
    /\ lastAction = "promptAccepted"
       => (pc = "getScriptAndInfo" /\ genRequests = <<thePrompt>>)
    /\ lastAction = "promptRejected"
       => (pc = "getPrompt" /\ validationShown /\ genRequests = <<>>)
    /\ (lastAction = "getConfig" /\ usePrompt = <<>>)
       => (pc = "getPrompt" /\ ~validationShown /\ genRequests = <<>>)
    /\ (lastAction = "getConfig" /\ usePrompt # <<>>)
       => (pc = "getScriptAndInfo" /\ genRequests = <<usePrompt>>)

C9_Witness ==
    /\ lastAction = "promptRejected"
    /\ pc = "getPrompt"
    /\ validationShown
    /\ genRequests = <<>>

\* C10: the current script is the full text of the latest generation or
\* revision round; the i-th revision request carries the text of the i-th
\* round as its code; Run, the Edit seed, Copy and Explain requests issued
\* for the current round act on that round's text; a completed revision
\* leaves the decision menu open.
C10_ScriptIsLatestRound ==
    /\ pc \in {"select", "editText", "readInfo", "getExplanation",
               "readExplanation", "promptForRevision", "getRevision",
               "readRevision", "clipboardWrite"}
       => script = Last(roundTexts)
    /\ Len(revRequests) <= Len(roundTexts)
    /\ \A i \in 1..Len(revRequests) : revRequests[i].code = roundTexts[i]
    /\ lastAction = "Yes" => Last(executed) = Last(roundTexts)
    /\ lastAction = "Edit" => editSeed = Last(roundTexts)
    /\ lastAction = "copied" => Last(clipboard) = Last(roundTexts)
    /\ requestsSinceRound >= 1 => Last(explRequests) = Last(roundTexts)
    /\ lastAction = "revised"
       => (pc = "select" /\ Len(roundTexts) = Len(revRequests) + 1)

C10_Witness ==
    /\ Len(revRequests) = 2
    /\ pc = "select"
    /\ roundTexts[1] # roundTexts[2]
    /\ roundTexts[2] # roundTexts[3]
    /\ script = roundTexts[3]
    /\ revRequests[2].code = roundTexts[2]

PromptStates == {"select", "getPrompt", "promptForRevision", "editText"}

StreamErrors ==
    {"generationStreamError", "revisionStreamError", "explanationStreamError"}

\* C11: choosing Run starts the executor once, on the current script; when
\* the command settles, successfully or not, the flow returns and the
\* process ends: no menu is rendered, no backend request is issued and
\* nothing more is executed, and an ended session takes no further step.
C11_RunIsTerminal ==
    [][ /\ (pc = "select" /\ lastAction' = "Yes")
           => (executed' = <<script>> /\ pc' = "execaCommand")
        /\ pc = "execaCommand"
           => ( /\ executed' = executed
                /\ pc' = "done"
                /\ exit' = "returned"
                /\ menuCount' = menuCount
                /\ UNCHANGED backend )
        /\ pc # "done" ]_vars

C11_Witness ==
    /\ lastAction = "executed"
    /\ edits = <<>>
    /\ executed = <<script>>
    /\ execOk = <<FALSE>>
    /\ pc = "done"

\* C12: once an edit has been submitted, the executor has been started
\* exactly once, on exactly the submitted text, and the session is running
\* that command or has ended by returning; the decision menu is not open.
C12_EditRunsEditedText ==
    edits # <<>>
    => ( /\ Len(edits) = 1
         /\ executed = edits
         /\ pc \in {"execaCommand", "done"}
         /\ pc = "done" => exit = "returned"
         /\ shellHistory \in {<<>>, edits} )

C12_Witness ==
    /\ edits # <<>>
    /\ edits[1] # script
    /\ edits[1] # editSeed
    /\ executed = edits
    /\ shellHistory = edits
    /\ pc = "done"

\* C13: Cancel ends the process with status 0; Copy writes the current
\* script to the clipboard and the flow returns (or the write rejects and
\* the process ends); after either no menu is rendered, no backend request
\* is issued and nothing is executed.
C13_CopyCancelTerminal ==
    [][ /\ (pc = "select" /\ lastAction' = "Cancel")
           => (pc' = "done" /\ exit' = "exit0")
        /\ (pc = "select" /\ lastAction' = "Copy")
           => (pc' = "clipboardWrite" /\ clipboard' = clipboard)
        /\ pc = "clipboardWrite"
           => ( /\ pc' = "done"
                /\ menuCount' = menuCount
                /\ executed' = executed
                /\ UNCHANGED backend
                /\ \/ clipboard' = <<script>> /\ exit' = "returned"
                   \/ clipboard' = clipboard /\ exit' = "crashed" )
        /\ pc = "done" => (pc' = "done" /\ UNCHANGED <<menuCount, executed>>)
      ]_vars

C13_Witness ==
    /\ lastAction = "copied"
    /\ clipboard = <<script>>
    /\ Len(revRequests) >= 1
    /\ exit = "returned"

\* C14: once the command has settled the flow has returned normally whether
\* it succeeded or failed, and the shell history holds the command exactly
\* when it succeeded.
C14_ExecutorFailureSuppressed ==
    /\ Len(shellHistory) <= Len(execOk)
    /\ lastAction = "executed"
       => ( /\ pc = "done"
            /\ exit = "returned"
            /\ Len(execOk) = 1
            /\ shellHistory = IF execOk[1] THEN executed ELSE <<>> )

C14_Witness ==
    /\ lastAction = "executed"
    /\ execOk = <<FALSE>>
    /\ shellHistory = <<>>
    /\ exit = "returned"

\* C15: a stream that fails while it is drained ends the session at that
\* step: the script and the recorded round texts stay as they were, no menu
\* is rendered, nothing is executed or copied.
C15_StreamErrorAborts ==
    [][ lastAction' \in StreamErrors
        => ( /\ pc \in {"readScript", "readRevision", "readExplanation"}
             /\ pc' = "done"
             /\ exit' = "crashed"
             /\ UNCHANGED <<script, roundTexts, menuCount, executed,
                            clipboard>>
             /\ executed = <<>>
             /\ clipboard = <<>> ) ]_vars

C15_Witness ==
    /\ lastAction = "revisionStreamError"
    /\ exit = "crashed"
    /\ pc = "done"
    /\ menuCount = 1
    /\ Len(roundTexts) = 1

\* C16: every revision request carries non-empty feedback; an empty
\* submission stays at the revision prompt with the validation message,
\* issues no request and leaves the current script as it was.
C16_RevisionNeedsFeedback ==
    /\ \A i \in 1..Len(revRequests) : revRequests[i].prompt # <<>>
    /\ lastAction = "revisionRejected"
       => ( /\ pc = "promptForRevision"
            /\ validationShown
            /\ script = Last(roundTexts)
            /\ Len(revRequests) = Len(roundTexts) - 1 )

C16_Witness ==
    /\ lastAction = "revisionRejected"
    /\ pc = "promptForRevision"
    /\ validationShown
    /\ revRequests = <<>>
    /\ script = Last(roundTexts)

C18_OneDrainPerRound ==
    /\ Len(genRequests) <= 1
    /\ (explRequests # <<>> \/ revRequests # <<>>) => Len(genRequests) = 1
    /\ scriptDrains <= Len(genRequests) + Len(revRequests)
    /\ Len(roundTexts) <= scriptDrains
    /\ pc = "select"
       => ( /\ Len(genRequests) = 1
            /\ scriptDrains = 1 + Len(revRequests)
            /\ Len(roundTexts) = scriptDrains )

C18_Witness ==
    /\ pc = "select"
    /\ Len(revRequests) = 2
    /\ scriptDrains = 3
    /\ Len(roundTexts) = 3

\* C19: no spinner is running while a menu or a text prompt is open.
C19_SpinnerStopped == pc \in PromptStates => spinners = 0

\* C20: the executor is started at most once per session, only by Yes or a
\* submitted Edit, never while the current script is empty, and on the
\* current script (Yes) or the submitted text (Edit).
C20_ExecutorOnce ==
    /\ Len(executed) <= 1
    /\ executed # <<>>
       => ( /\ lastAction \in {"Yes", "editSubmit", "executed"}
            /\ script # <<>>
            /\ IF edits = <<>> THEN executed = <<script>>
                               ELSE executed = edits )

C20_Witness ==
    /\ lastAction = "Yes"
    /\ executed = <<script>>
    /\ edits = <<>>
    /\ Len(revRequests) >= 1

====
